---- MODULE Spec2Model ----
(***************************************************************************)
(* Model of screenshot.cpp: the screenshot tool of the TXT 4.0 controller. *)
(* One invocation of main() names the output file (generateFileName),      *)
(* reads the frame buffer, converts RGB565 to RGB888 and writes the PNG    *)
(* (writePng).  The filesystem is shared by all invocations.               *)
(*                                                                         *)
(* Strings are sequences of one-character strings, so that append, resize  *)
(* and c_str are the operations the code performs.                         *)
(***************************************************************************)
EXTENDS Integers, Sequences, FiniteSets, TLC

\* ------------------------------------------------------------------ bounds

\* number of invocations of the program
NumProcs == 2
\* largest number of files that exist before the first invocation
MaxPre == 10
\* the same, where several invocations follow one another
SeqPre == 2
\* the same, where several invocations run at the same time
ConcPre == 1
\* the loop of generateFileName is followed up to this counter value
MaxCounter == 14
\* frame geometry of the model (the display's is 240 x 320)
FrameW == 2
FrameH == 2

\* --------------------------------------------------------------- constants

DATE_STR_SIZE == 20
COUNTER_STR_SIZE == 10
RED_MAX == 31
GREEN_MAX == 63
BLUE_MAX == 31
COLOR_MAX == 255
\* sizeof(RGB565): three bit-fields of a uint16_t, 16 bits in all
SIZEOF_RGB565 == 2
\* largest value of int, the type of counter
INT_MAX == 2147483647
\* exit status of a process ended by abort() (SIGABRT), as a shell reports it
ABORT_STATUS == 134

Procs == 1..NumProcs

\* ----------------------------------------------------------------- strings

NUL == "NUL"
DigitChars == <<"0", "1", "2", "3", "4", "5", "6", "7", "8", "9">>
DigitChar(d) == DigitChars[d + 1]
PNG_SUFFIX == <<".", "p", "n", "g">>
DASH == <<"-">>
SLASH == <<"/">>

\* std::string::resize(n) to a smaller size
Resize(s, n) == SubSeq(s, 1, n)

\* the C string held by a char array: the characters before the first NUL
RECURSIVE CStrFrom(_, _)
CStrFrom(arr, i) ==
    IF i > Len(arr) \/ arr[i] = NUL THEN <<>>
    ELSE <<arr[i]>> \o CStrFrom(arr, i + 1)
CStr(arr) == CStrFrom(arr, 1)

\* a value-initialised std::array<char, n>
ZeroArray(n) == [i \in 1..n |-> NUL]

\* decimal digits of a natural number, most significant first
RECURSIVE Digits(_)
Digits(n) == IF n < 10 THEN <<DigitChar(n)>>
             ELSE Digits(n \div 10) \o <<DigitChar(n % 10)>>

\* a field of strftime: n in decimal, zero-padded to w digits
RECURSIVE PadNum(_, _)
PadNum(n, w) == IF w = 0 THEN <<>>
                ELSE PadNum(n \div 10, w - 1) \o <<DigitChar(n % 10)>>

\* strftime(buf, size, "%Y-%m-%d-%H-%M-%S", tm): the bytes written into a
\* zeroed buffer of `size` chars; nothing is written when the text and its
\* terminating NUL do not fit
Strftime(size, tm) ==
    LET text == PadNum(tm.year, 4) \o DASH \o PadNum(tm.mon, 2) \o DASH
                \o PadNum(tm.mday, 2) \o DASH \o PadNum(tm.hour, 2) \o DASH
                \o PadNum(tm.min, 2) \o DASH \o PadNum(tm.sec, 2)
    IN  IF Len(text) + 1 > size THEN ZeroArray(size)
        ELSE [i \in 1..size |-> IF i <= Len(text) THEN text[i] ELSE NUL]

\* the local times the clock of the model runs through
Times == << [year |-> 2024, mon |-> 7, mday |-> 26, hour |-> 9, min |-> 5, sec |-> 59],
            [year |-> 2024, mon |-> 7, mday |-> 26, hour |-> 9, min |-> 6, sec |-> 0] >>

getDate(now) == Strftime(DATE_STR_SIZE, Times[now])

\* mutant: the range handed to to_chars holds one character only
to_chars_oneChar(size, value) ==
    LET text == IF value < 0 THEN DASH \o Digits(-value) ELSE Digits(value)
    IN  IF Len(text) > 1 THEN [ok |-> FALSE, str |-> <<>>]
        ELSE [ok |-> TRUE, str |-> text]

\* std::to_chars(first, last, value) into a buffer of `size` chars:
\* ok = (ec == std::errc()), str = the characters [first, endPtr)
to_chars(size, value) ==
    LET text == IF value < 0 THEN DASH \o Digits(-value) ELSE Digits(value)
    IN  IF Len(text) > size THEN [ok |-> FALSE, str |-> <<>>]
        ELSE [ok |-> TRUE, str |-> text]

\* mutant: the '/' is appended also after an empty directory
InitialPath_alwaysSlash(dir, base, incl, dateStr) ==
    dir \o SLASH
    \o base
    \o (IF incl THEN DASH \o CStr(dateStr) ELSE <<>>)
    \o PNG_SUFFIX

\* the initial file path of generateFileName (lines 98-108)
InitialPath(dir, base, incl, dateStr) ==
    (IF dir # <<>> THEN dir \o SLASH ELSE <<>>)
    \o base
    \o (IF incl THEN DASH \o CStr(dateStr) ELSE <<>>)
    \o PNG_SUFFIX

\* mutant: only the suffix is stripped, the previous counter number stays
NextPath_keepsCounter(path, baseSize, counterText) ==
    Resize(path, Len(path) - 4) \o DASH \o counterText \o PNG_SUFFIX

\* one pass of the loop body of generateFileName (lines 122-128): the path
\* with the counter number and suffix stripped and the new ones appended
NextPath(path, baseSize, counterText) ==
    Resize(path, baseSize) \o DASH \o counterText \o PNG_SUFFIX

\* ------------------------------------------------------------------- state

VARIABLES
    directory,     \* main: directory, as set by the options
    baseName,      \* main: baseName
    includeDate,   \* main: includeDate
    now,           \* the clock: index in Times of the local time last read
    fb,            \* the words /dev/fb0 delivers
    files,         \* the filesystem: path |-> content of each file stat finds
    pc,            \* where each invocation stands
    dateStr,       \* generateFileName: dateStr
    filePath,      \* generateFileName: filePath, then main: outputFile
    basePathSize,  \* generateFileName: basePathSize
    counter,       \* generateFileName: counter
    y,             \* writePng: y
    buffer565,     \* main: buffer565
    buffer888,     \* main: buffer888
    out,           \* what the invocation wrote to std::cout
    err,           \* what the invocation wrote to std::cerr
    exit,          \* exit status, NoExit while running
    probes,        \* history: the paths handed to fileExists, in order
    fsBefore,      \* history: the filesystem when the invocation started
    ran,           \* history: how often each component was entered
    failed         \* history: the failures the invocation met

vars == <<directory, baseName, includeDate, now, fb, files, pc, dateStr,
          filePath, basePathSize, counter, y, buffer565, buffer888, out, err,
          exit, probes, fsBefore, ran, failed>>

config == <<directory, baseName, includeDate, fb>>
namerVars == <<dateStr, filePath, basePathSize, counter, probes>>

NoExit == -1
NPixels == FrameW * FrameH
\* the byte count main asks of frameBuf.read
ExpectedBytes == NPixels * SIZEOF_RGB565

Components == {"Name", "Capture", "Convert", "Encode"}

\* messages
MsgUsage == <<"Usage">>
MsgSaved(path) == <<"Screenshot saved as", path>>
ErrOpenFb == "Failed to open frame buffer"
ErrReadFb == "Failed to read frame buffer"
ErrOpenFile == "Failed to open file for writing"
ErrWriteStruct == "Failed to create PNG write struct"
ErrInfoStruct == "Failed to create PNG info struct"
ErrJmp == "Failed to set PNG jump buffer"
ErrTerminate == "terminate called after throwing an instance of 'std::runtime_error'"

\* mutant: the test of stat's result is inverted
fileExists_inverted(path) == path \notin DOMAIN files

\* fileExists: stat(path) == 0
fileExists(path) == path \in DOMAIN files

\* mutant: an if in place of the while, the new path is not tested again
LoopCondition_onlyOnce(p) == counter[p] = 1 /\ fileExists(filePath[p])

\* the condition of the loop of generateFileName
LoopCondition(p) == fileExists(filePath[p])

\* content of a file: who opened it last with "wb", who wrote into it since,
\* and who finished a PNG in it since
NewContent(p) == [owner |-> p, writers |-> {}, complete |-> {}]
\* a file that was there before the first invocation (owner 0: none of Procs)
PreContent == [owner |-> 0, writers |-> {0}, complete |-> {0}]

\* fopen(filename, "wb"): creates the file, or truncates it to length zero
Truncate(fs, path, p) ==
    [f \in DOMAIN fs \cup {path} |-> IF f = path THEN NewContent(p) ELSE fs[f]]

\* a write of p's stream reaches the file p opened
WriteTo(fs, path, p) ==
    [fs EXCEPT ![path].writers = @ \cup {p}]

Enter(p, c) == ran' = [ran EXCEPT ![p][c] = @ + 1]
Fail(p, f) == failed' = [failed EXCEPT ![p] = @ \cup {f}]
Say(p, m) == out' = [out EXCEPT ![p] = Append(@, m)]
Complain(p, m) == err' = [err EXCEPT ![p] = Append(@, m)]
Goto(p, l) == pc' = [pc EXCEPT ![p] = l]
Return(p, status) == /\ pc' = [pc EXCEPT ![p] = "exited"]
                     /\ exit' = [exit EXCEPT ![p] = status]

\* ---------------------------------------------------------- pixel conversion

\* the bit-fields of struct RGB565 in a 16-bit word: blue in the low 5 bits,
\* then green in 6 bits, then red in the high 5 bits
BlueOf(w) == w % 32
GreenOf(w) == (w \div 32) % 64
RedOf(w) == (w \div 2048) % 32
Word565(r, g, b) == r * 2048 + g * 32 + b

\* the store of an int into an unsigned char
ToUChar(v) == v % 256

\* mutant: the channels are widened by shifting, not by rescaling
convertPixel_shift(w) ==
    [red   |-> ToUChar(RedOf(w) * 8),
     green |-> ToUChar(GreenOf(w) * 4),
     blue  |-> ToUChar(BlueOf(w) * 8)]

\* one pass of the loop body of convertRgb565ToRgb888
convertPixel(w) ==
    [red   |-> ToUChar((RedOf(w) * COLOR_MAX) \div RED_MAX),
     green |-> ToUChar((GreenOf(w) * COLOR_MAX) \div GREEN_MAX),
     blue  |-> ToUChar((BlueOf(w) * COLOR_MAX) \div BLUE_MAX)]

convertRgb565ToRgb888(buf565) ==
    [i \in 1..NPixels |-> convertPixel(buf565[i])]

\* std::vector<RGB565>(WIDTH * HEIGHT): value-initialised
ZeroBuffer == [i \in 1..NPixels |-> 0]
NoBuffer == <<>>

\* frameBuf.read of n bytes into the zeroed buffer (little endian): whole
\* words first, then the low byte of the next word
ReadInto(words, n) ==
    [i \in 1..NPixels |->
        IF 2 * i <= n THEN words[i]
        ELSE IF 2 * i - 1 <= n THEN words[i] % 256
        ELSE 0]

\* ----------------------------------------------------------------- actions

\* main up to the loop of generateFileName: the options are read, and with
\* --help the usage is printed and main returns 0.  time(nullptr) returns
\* t, the clock not running backwards.
Start(p, showHelp, t) ==
    /\ pc[p] = "idle"
    /\ fsBefore' = [fsBefore EXCEPT ![p] = files]
    /\ IF showHelp
       THEN /\ Say(p, MsgUsage)
            /\ Return(p, 0)
            /\ UNCHANGED <<namerVars, ran, now>>
       ELSE LET date == IF includeDate THEN getDate(t) ELSE ZeroArray(DATE_STR_SIZE)
                path == InitialPath(directory, baseName, includeDate, date)
            IN  /\ now' = IF includeDate THEN t ELSE now
                /\ dateStr' = [dateStr EXCEPT ![p] = date]
                /\ filePath' = [filePath EXCEPT ![p] = path]
                /\ basePathSize' = [basePathSize EXCEPT ![p] = Len(path) - 4]
                /\ counter' = [counter EXCEPT ![p] = 1]
                /\ Enter(p, "Name")
                /\ Goto(p, "name")
                /\ UNCHANGED <<probes, out, exit>>
    /\ UNCHANGED <<config, files, y, buffer565, buffer888, err, failed>>

\* one test of the loop condition of generateFileName, and the loop body or
\* the return that follows it
NameStep(p) ==
    /\ pc[p] = "name"
    /\ counter[p] <= MaxCounter
    /\ counter[p] < INT_MAX
    /\ probes' = [probes EXCEPT ![p] = Append(@, filePath[p])]
    /\ IF LoopCondition(p)
       THEN LET r == to_chars(COUNTER_STR_SIZE, counter[p])
            IN  IF ~r.ok
                THEN \* the exception leaves main: std::terminate
                     /\ Complain(p, ErrTerminate)
                     /\ Fail(p, "NumericConversionFailure")
                     /\ Return(p, ABORT_STATUS)
                     /\ UNCHANGED <<filePath, counter>>
                ELSE /\ filePath' = [filePath EXCEPT
                                       ![p] = NextPath(@, basePathSize[p], r.str)]
                     /\ counter' = [counter EXCEPT ![p] = @ + 1]
                     /\ UNCHANGED <<pc, exit, err, failed>>
       ELSE /\ Goto(p, "open_fb")
            /\ UNCHANGED <<filePath, counter, exit, err, failed>>
    /\ UNCHANGED <<config, now, files, dateStr, basePathSize, y, buffer565,
                   buffer888, out, fsBefore, ran>>

\* mutant: the return after the failed open is missing
OpenFrameBuf_noReturn(p, opened) ==
    /\ pc[p] = "open_fb"
    /\ Enter(p, "Capture")
    /\ Goto(p, "read_fb")
    /\ buffer565' = [buffer565 EXCEPT ![p] = ZeroBuffer]
    /\ IF opened
       THEN UNCHANGED <<err, failed>>
       ELSE Complain(p, ErrOpenFb) /\ Fail(p, "DeviceUnavailable")
    /\ UNCHANGED <<config, now, files, namerVars, y, buffer888, out, exit, fsBefore>>

\* std::ifstream(FRAME_BUF_PATH) and the is_open test
OpenFrameBuf(p, opened) ==
    /\ pc[p] = "open_fb"
    /\ Enter(p, "Capture")
    /\ IF opened
       THEN /\ Goto(p, "read_fb")
            /\ buffer565' = [buffer565 EXCEPT ![p] = ZeroBuffer]
            /\ UNCHANGED <<err, exit, failed>>
       ELSE /\ Complain(p, ErrOpenFb)
            /\ Fail(p, "DeviceUnavailable")
            /\ Return(p, 1)
            /\ UNCHANGED buffer565
    /\ UNCHANGED <<config, now, files, namerVars, y, buffer888, out, fsBefore>>

\* mutant: the return after the short read is missing
ReadFrameBuf_noReturn(p, n) ==
    /\ pc[p] = "read_fb"
    /\ buffer565' = [buffer565 EXCEPT ![p] = ReadInto(fb, n)]
    /\ Goto(p, "convert")
    /\ IF n < ExpectedBytes
       THEN Complain(p, ErrReadFb) /\ Fail(p, "ShortRead")
       ELSE UNCHANGED <<err, failed>>
    /\ UNCHANGED <<config, now, files, namerVars, y, buffer888, out, exit, fsBefore, ran>>

\* frameBuf.read and the test of the stream: n bytes arrive
ReadFrameBuf(p, n) ==
    /\ pc[p] = "read_fb"
    /\ buffer565' = [buffer565 EXCEPT ![p] = ReadInto(fb, n)]
    /\ IF n < ExpectedBytes
       THEN /\ Complain(p, ErrReadFb)
            /\ Fail(p, "ShortRead")
            /\ Return(p, 1)
       ELSE /\ Goto(p, "convert")
            /\ UNCHANGED <<err, exit, failed>>
    /\ UNCHANGED <<config, now, files, namerVars, y, buffer888, out, fsBefore, ran>>

Convert(p) ==
    /\ pc[p] = "convert"
    /\ Enter(p, "Convert")
    /\ buffer888' = [buffer888 EXCEPT ![p] = convertRgb565ToRgb888(buffer565[p])]
    /\ Goto(p, "fopen")
    /\ UNCHANGED <<config, now, files, namerVars, y, buffer565, out, err, exit,
                   fsBefore, failed>>

\* mutant: the file is opened with exclusive creation ("wbx"), so the open
\* fails when the file exists
Fopen_exclusive(p, opened) ==
    /\ pc[p] = "fopen"
    /\ Enter(p, "Encode")
    /\ IF opened /\ ~fileExists(filePath[p])
       THEN /\ files' = Truncate(files, filePath[p], p)
            /\ Goto(p, "png_create")
            /\ UNCHANGED <<err, failed>>
       ELSE /\ Complain(p, ErrOpenFile)
            /\ Fail(p, "FileWriteUnavailable")
            /\ Goto(p, "print")
            /\ UNCHANGED files
    /\ UNCHANGED <<config, now, namerVars, y, buffer565, buffer888, out, exit,
                   fsBefore>>

\* writePng: fopen(filename, "wb")
Fopen(p, opened) ==
    /\ pc[p] = "fopen"
    /\ Enter(p, "Encode")
    /\ IF opened
       THEN /\ files' = Truncate(files, filePath[p], p)
            /\ Goto(p, "png_create")
            /\ UNCHANGED <<err, failed>>
       ELSE /\ Complain(p, ErrOpenFile)
            /\ Fail(p, "FileWriteUnavailable")
            /\ Goto(p, "print")
            /\ UNCHANGED files
    /\ UNCHANGED <<config, now, namerVars, y, buffer565, buffer888, out, exit,
                   fsBefore>>

\* writePng: png_create_write_struct, png_create_info_struct, setjmp
PngCreate(p, res) ==
    /\ pc[p] = "png_create"
    /\ IF res = "ok"
       THEN /\ Goto(p, "write_info")
            /\ UNCHANGED <<err, failed>>
       ELSE /\ Complain(p, IF res = "no_write_struct" THEN ErrWriteStruct
                                                     ELSE ErrInfoStruct)
            /\ Fail(p, "EncoderFailure")
            /\ Goto(p, "print")
    /\ UNCHANGED <<config, now, files, namerVars, y, buffer565, buffer888, out,
                   exit, fsBefore, ran>>

\* the longjmp of a failing libpng call back to the setjmp of writePng
LongJmp(p) ==
    /\ Complain(p, ErrJmp)
    /\ Fail(p, "EncoderFailure")
    /\ Goto(p, "print")

\* writePng: png_init_io, png_set_IHDR, png_write_info
WriteInfo(p, ok) ==
    /\ pc[p] = "write_info"
    /\ IF ok
       THEN /\ files' = WriteTo(files, filePath[p], p)
            /\ Goto(p, "write_row")
            /\ y' = [y EXCEPT ![p] = 0]
            /\ UNCHANGED <<err, failed>>
       ELSE /\ LongJmp(p)
            /\ UNCHANGED <<files, y>>
    /\ UNCHANGED <<config, now, namerVars, buffer565, buffer888, out, exit,
                   fsBefore, ran>>

\* writePng: one png_write_row of the loop over y
WriteRow(p, ok) ==
    /\ pc[p] = "write_row"
    /\ y[p] < FrameH
    /\ IF ok
       THEN /\ files' = WriteTo(files, filePath[p], p)
            /\ y' = [y EXCEPT ![p] = @ + 1]
            /\ UNCHANGED <<pc, err, failed>>
       ELSE /\ LongJmp(p)
            /\ UNCHANGED <<files, y>>
    /\ UNCHANGED <<config, now, namerVars, buffer565, buffer888, out, exit,
                   fsBefore, ran>>

\* writePng: png_write_end, png_destroy_write_struct, fclose
WriteEnd(p, ok) ==
    /\ pc[p] = "write_row"
    /\ y[p] = FrameH
    /\ IF ok
       THEN /\ files' = [files EXCEPT ![filePath[p]].complete = @ \cup {p}]
            /\ Goto(p, "print")
            /\ UNCHANGED <<err, failed>>
       ELSE /\ LongJmp(p)
            /\ UNCHANGED files
    /\ UNCHANGED <<config, now, namerVars, y, buffer565, buffer888, out, exit,
                   fsBefore, ran>>

\* main after writePng has returned: the message and return 0
PrintSaved(p) ==
    /\ pc[p] = "print"
    /\ Say(p, MsgSaved(filePath[p]))
    /\ Return(p, 0)
    /\ UNCHANGED <<config, now, files, namerVars, y, buffer565, buffer888, err,
                   fsBefore, ran, failed>>

\* ------------------------------------------------------- initial states

\* the option values the invocations are given (all get the same ones)
Dirs == {<<>>, <<"o", "u", "t">>}
Bases == {<<"s", "h", "o", "t">>,
          <<"s", "c", "r", "e", "e", "n", "s", "h", "o", "t">>}

\* the text of a local time, YYYY-MM-DD-HH-MM-SS
TimeText(tm) ==
    PadNum(tm.year, 4) \o <<"-">> \o PadNum(tm.mon, 2) \o <<"-">>
    \o PadNum(tm.mday, 2) \o <<"-">> \o PadNum(tm.hour, 2) \o <<"-">>
    \o PadNum(tm.min, 2) \o <<"-">> \o PadNum(tm.sec, 2)

\* [directory/]base[-timestamp], the path without disambiguator and suffix
Stem(dir, base, incl, t) ==
    (IF dir = <<>> THEN <<>> ELSE dir \o <<"/">>) \o base
    \o (IF incl THEN <<"-">> \o TimeText(Times[t]) ELSE <<>>)

\* the k-th name of the series stem.png, stem-1.png, stem-2.png, ...
Numbered(stem, k) ==
    IF k = 0 THEN stem \o <<".", "p", "n", "g">>
    ELSE stem \o <<"-">> \o Digits(k) \o <<".", "p", "n", "g">>

\* the first n names of the series, without the g-th
PreNames(stem, n, g) == {Numbered(stem, k) : k \in (0..(n - 1)) \ {g}}

\* the filesystems an invocation may find: the first n names of the series
\* taken by earlier files, with at most one gap
PreFileSystems(stem, maxPre) ==
    {[f \in PreNames(stem, n, g) |-> PreContent] : n \in 0..maxPre, g \in 0..maxPre}

InitWith(maxPre, frames) ==
    /\ directory \in Dirs
    /\ baseName \in Bases
    /\ includeDate \in BOOLEAN
    /\ now = 1
    /\ fb \in frames
    /\ files \in PreFileSystems(Stem(directory, baseName, includeDate, 1), maxPre)
    /\ pc = [p \in Procs |-> "idle"]
    /\ dateStr = [p \in Procs |-> ZeroArray(DATE_STR_SIZE)]
    /\ filePath = [p \in Procs |-> <<>>]
    /\ basePathSize = [p \in Procs |-> 0]
    /\ counter = [p \in Procs |-> 1]
    /\ y = [p \in Procs |-> 0]
    /\ buffer565 = [p \in Procs |-> NoBuffer]
    /\ buffer888 = [p \in Procs |-> NoBuffer]
    /\ out = [p \in Procs |-> <<>>]
    /\ err = [p \in Procs |-> <<>>]
    /\ exit = [p \in Procs |-> NoExit]
    /\ probes = [p \in Procs |-> <<>>]
    /\ fsBefore = [p \in Procs |-> <<>>]
    /\ ran = [p \in Procs |-> [c \in Components |-> 0]]
    /\ failed = [p \in Procs |-> {}]

\* the byte counts a read of the device is followed for
ReadSizes == {ExpectedBytes - 1, ExpectedBytes}

\* the steps of a started invocation
Step(p) ==
    \/ NameStep(p)
    \/ \E opened \in BOOLEAN : OpenFrameBuf(p, opened)
    \/ \E n \in ReadSizes : ReadFrameBuf(p, n)
    \/ Convert(p)
    \/ \E opened \in BOOLEAN : Fopen(p, opened)
    \/ \E res \in {"ok", "no_write_struct", "no_info_struct"} : PngCreate(p, res)
    \/ \E ok \in BOOLEAN : WriteInfo(p, ok)
    \/ \E ok \in BOOLEAN : WriteRow(p, ok)
    \/ \E ok \in BOOLEAN : WriteEnd(p, ok)
    \/ PrintSaved(p)

\* the times the clock may show from now on
Clock == now..Len(Times)

\* an invocation: main is entered, or takes its next step
Invocation(p) ==
    \/ \E showHelp \in BOOLEAN, t \in Clock : Start(p, showHelp, t)
    \/ Step(p)

\* ---- one invocation, on any of the filesystems

Init == InitWith(MaxPre, {ZeroBuffer})

Next == Invocation(1)

Spec == Init /\ [][Next]_vars

\* the same, the running invocation never suspended for good inside the
\* loop of generateFileName
SpecFair == Init /\ [][Next]_vars /\ WF_vars(NameStep(1))

\* ---- invocations one after another: p starts when every earlier one has
\* exited and no later one has started

InTurn(p) ==
    \A q \in Procs \ {p} : pc[q] = IF q < p THEN "exited" ELSE "idle"

InitSeq == InitWith(SeqPre, {ZeroBuffer})

NextSeq ==
    \E p \in Procs :
        \/ InTurn(p) /\ \E showHelp \in BOOLEAN, t \in Clock : Start(p, showHelp, t)
        \/ Step(p)

SpecSeq == InitSeq /\ [][NextSeq]_vars

\* ---- invocations at the same time, their steps interleaved

InitConc == InitWith(ConcPre, {ZeroBuffer})

\* the two invocations that race
Racers == {1, 2}

NextConc == \E p \in Racers : Invocation(p)

SpecConc == InitConc /\ [][NextConc]_vars

\* ---- one invocation that captures a frame and converts it

\* frames in which one channel takes two values v1 and v2, in alternating
\* pixels, and the other two channels are both 0 or both at their maximum
PixelOf(c, v, hi) ==
    Word565(IF c = "red" THEN v ELSE IF hi THEN RED_MAX ELSE 0,
            IF c = "green" THEN v ELSE IF hi THEN GREEN_MAX ELSE 0,
            IF c = "blue" THEN v ELSE IF hi THEN BLUE_MAX ELSE 0)

ChannelMax(c) == IF c = "red" THEN RED_MAX
                 ELSE IF c = "green" THEN GREEN_MAX ELSE BLUE_MAX

FramesOf(c) ==
    {[i \in 1..NPixels |-> IF i % 2 = 1 THEN PixelOf(c, v1, hi) ELSE PixelOf(c, v2, hi)] :
        v1 \in 0..ChannelMax(c), v2 \in 0..ChannelMax(c), hi \in BOOLEAN}

Frames == FramesOf("red") \cup FramesOf("green") \cup FramesOf("blue")

InitConv ==
    /\ directory = <<>>
    /\ baseName = <<"s", "c", "r", "e", "e", "n", "s", "h", "o", "t">>
    /\ includeDate = FALSE
    /\ InitWith(0, Frames)

NextConv ==
    \/ Start(1, FALSE, now)
    \/ NameStep(1)
    \/ OpenFrameBuf(1, TRUE)
    \/ ReadFrameBuf(1, ExpectedBytes)
    \/ Convert(1)

SpecConv == InitConv /\ [][NextConv]_vars

\* ------------------------------------------------------------------ claims

\* generateFileName has just returned to main
JustNamed(p) == pc[p] = "open_fb"

\* the stem of the names the invocation chooses among (in Spec the clock was
\* last read by the one invocation)
TheStem == Stem(directory, baseName, includeDate, now)

\* the index of the first name of the series that is free in fs
FirstFree(stem, fs) ==
    CHOOSE n \in 0..(MaxCounter + 1) :
        /\ Numbered(stem, n) \notin DOMAIN fs
        /\ \A m \in 0..(n - 1) : Numbered(stem, m) \in DOMAIN fs

TenTaken(fs) ==
    /\ \A k \in 0..9 : Numbered(TheStem, k) \in DOMAIN fs
    /\ TheStem \o <<"-", "1", "0", ".", "p", "n", "g">> \notin DOMAIN fs

\* C1: the path generateFileName returns names no existing file at the
\* moment it returns; when base.png, base-1.png, ..., base-9.png are taken
\* (and base-10.png is not), it returns base-10.png.
C1_ReturnedPathIsFree ==
    \A p \in Procs :
        JustNamed(p) =>
            /\ filePath[p] \notin DOMAIN files
            /\ TenTaken(fsBefore[p]) =>
                 filePath[p] = TheStem \o <<"-", "1", "0", ".", "p", "n", "g">>

C1_Witness ==
    /\ JustNamed(1)
    /\ TenTaken(fsBefore[1])
    /\ filePath[1] = <<"s", "h", "o", "t", "-", "1", "0", ".", "p", "n", "g">>

\* C8: when no file has the candidate path, generateFileName returns exactly
\* [directory/]base[-timestamp].png: no directory part and no leading '/' for
\* an empty directory, directory then '/' then base otherwise, and '-' with
\* the YYYY-MM-DD-HH-MM-SS timestamp exactly when the flag is set.
IsDigit(c) == \E d \in 0..9 : c = DigitChar(d)

IsTimestamp(t) ==
    /\ Len(t) = 19
    /\ \A i \in 1..19 : IF i \in {5, 8, 11, 14, 17} THEN t[i] = "-" ELSE IsDigit(t[i])

HeadOf(dir) == IF dir = <<>> THEN <<>> ELSE dir \o <<"/">>

C8_PathWithoutCollision ==
    \A p \in Procs :
        (JustNamed(p) /\ Numbered(TheStem, 0) \notin DOMAIN fsBefore[p]) =>
            LET head == HeadOf(directory) \o baseName
                rest == SubSeq(filePath[p], Len(head) + 1, Len(filePath[p]))
            IN  /\ Len(filePath[p]) >= Len(head)
                /\ SubSeq(filePath[p], 1, Len(head)) = head
                /\ directory = <<>> => SubSeq(filePath[p], 1, Len(baseName)) = baseName
                /\ IF includeDate
                   THEN /\ Len(rest) = 24
                        /\ rest[1] = "-"
                        /\ IsTimestamp(SubSeq(rest, 2, 20))
                        /\ SubSeq(rest, 2, 20) = TimeText(Times[now])
                        /\ SubSeq(rest, 21, 24) = <<".", "p", "n", "g">>
                   ELSE rest = <<".", "p", "n", "g">>

C8_Witness ==
    /\ JustNamed(1)
    /\ fsBefore[1] = <<>>
    /\ filePath[1] = <<"o", "u", "t", "/", "s", "h", "o", "t", "-",
                       "2", "0", "2", "4", "-", "0", "7", "-", "2", "6", "-",
                       "0", "9", "-", "0", "5", "-", "5", "9", ".", "p", "n", "g">>

\* C9: when the candidate P.png exists, generateFileName probes P-1.png,
\* P-2.png, ... in that order and returns P-N.png for the smallest N >= 1
\* whose P-N.png does not exist, gaps in the existing files included; the
\* returned path carries one disambiguator only.
C9_SmallestFreeNumber ==
    \A p \in Procs :
        (JustNamed(p) /\ Numbered(TheStem, 0) \in DOMAIN fsBefore[p]) =>
            LET N == FirstFree(TheStem, fsBefore[p])
            IN  /\ N >= 1
                /\ probes[p] = [k \in 1..(N + 1) |-> Numbered(TheStem, k - 1)]
                /\ filePath[p] = TheStem \o <<"-">> \o Digits(N) \o <<".", "p", "n", "g">>

C9_Witness ==
    /\ JustNamed(1)
    /\ DOMAIN fsBefore[1] = {<<"s", "h", "o", "t", ".", "p", "n", "g">>,
                             <<"s", "h", "o", "t", "-", "1", ".", "p", "n", "g">>,
                             <<"s", "h", "o", "t", "-", "3", ".", "p", "n", "g">>}
    /\ filePath[1] = <<"s", "h", "o", "t", "-", "2", ".", "p", "n", "g">>

C9_WitnessGap ==
    /\ JustNamed(1)
    /\ DOMAIN fsBefore[1] = {<<"s", "h", "o", "t", ".", "p", "n", "g">>,
                             <<"s", "h", "o", "t", "-", "2", ".", "p", "n", "g">>}
    /\ filePath[1] = <<"s", "h", "o", "t", "-", "1", ".", "p", "n", "g">>

\* C10: generateFileName returns after exactly n + 1 existence checks when
\* the first n names P.png, P-1.png, ..., P-(n-1).png are taken and the next
\* is free; the loop always comes to its end, and it never fails with the
\* numeric-conversion error: the largest int fits the counter buffer.
ChecksMade(p) == Len(probes[p])

C10_ReturnsAfterNPlusOneChecks ==
    /\ [](\A p \in Procs :
            /\ JustNamed(p) => ChecksMade(p) = FirstFree(TheStem, fsBefore[p]) + 1
            /\ "NumericConversionFailure" \notin failed[p]
            /\ to_chars(COUNTER_STR_SIZE, INT_MAX).ok)
    /\ \A p \in Procs : (pc[p] = "name") ~> JustNamed(p)

C10_Witness ==
    /\ JustNamed(1)
    /\ \A k \in 0..9 : Numbered(TheStem, k) \in DOMAIN fsBefore[1]
    /\ ChecksMade(1) = 11
    /\ counter[1] = 11

\* C3: when the frame buffer cannot be opened or the read comes short, the
\* invocation fails with a diagnostic and a non-zero exit status, nothing is
\* converted or encoded, and the files are those that were there before.
CaptureFailed(p) == failed[p] \cap {"DeviceUnavailable", "ShortRead"} # {}

C3_CaptureFailureLeavesNoFile ==
    \A p \in Procs :
        CaptureFailed(p) =>
            /\ pc[p] = "exited"
            /\ exit[p] # 0
            /\ err[p] # <<>>
            /\ out[p] = <<>>
            /\ ran[p]["Convert"] = 0
            /\ ran[p]["Encode"] = 0
            /\ buffer888[p] = NoBuffer
            /\ files = fsBefore[p]

C3_Witness ==
    /\ "ShortRead" \in failed[1]
    /\ pc[1] = "exited"
    /\ exit[1] = 1
    /\ err[1] = <<ErrReadFb>>
    /\ filePath[1] \notin DOMAIN files

\* C7: an invocation enters each of Name, Capture, Convert and Encode at
\* most once and ends in one terminal state, which it never leaves; Encode
\* is entered only after Name, Capture and Convert have succeeded, and once
\* a component has failed no further component is entered.
PipelineOrder(p) ==
    /\ \A c \in Components : ran[p][c] <= 1
    /\ ran[p]["Encode"] = 1 =>
          /\ ran[p]["Name"] = 1 /\ ran[p]["Capture"] = 1 /\ ran[p]["Convert"] = 1
          /\ failed[p] \cap {"NumericConversionFailure", "DeviceUnavailable",
                             "ShortRead"} = {}
    /\ (pc[p] = "exited") <=> (exit[p] # NoExit)

C7_EachComponentOnce ==
    /\ [](\A p \in Procs : PipelineOrder(p))
    /\ [][\A p \in Procs :
            /\ failed[p] # {} => ran'[p] = ran[p]
            /\ pc[p] = "exited" => (pc'[p] = "exited" /\ exit'[p] = exit[p])]_vars

C7_Witness ==
    /\ pc[1] = "exited"
    /\ exit[1] = 0
    /\ failed[1] = {}
    /\ \A c \in Components : ran[1][c] = 1

\* C2: an invocation that met a failure has printed a diagnostic and exits
\* with a non-zero status; the success message and exit status 0 occur only
\* when nothing failed.
Succeeded(p) ==
    \/ exit[p] = 0
    \/ \E i \in 1..Len(out[p]) : out[p][i] = MsgSaved(filePath[p])

C2_FailureExitsNonZero ==
    \A p \in Procs :
        (pc[p] = "exited" /\ failed[p] # {}) =>
            /\ err[p] # <<>>
            /\ ~Succeeded(p)

\* C4: of invocations run one after another with the same directory and base
\* name and no timestamp, those that open an output file open pairwise
\* different paths, no open truncates a file that was there, and every
\* invocation that completed the pipeline leaves its own complete file.
Opened(p) == ran[p]["Encode"] = 1 /\ "FileWriteUnavailable" \notin failed[p]

Completed(p) ==
    /\ pc[p] = "exited"
    /\ ran[p]["Encode"] = 1
    /\ failed[p] = {}

C4_SuccessiveRunsWriteDistinctFiles ==
    /\ [](~includeDate =>
            /\ \A p, q \in Procs :
                 (p # q /\ Opened(p) /\ Opened(q)) => filePath[p] # filePath[q]
            /\ \A p \in Procs :
                 Completed(p) =>
                    /\ filePath[p] \in DOMAIN files
                    /\ files[filePath[p]] =
                         [owner |-> p, writers |-> {p}, complete |-> {p}])
    /\ [][~includeDate =>
            \A f \in DOMAIN files :
                f \in DOMAIN files' /\ files'[f].owner = files[f].owner]_vars

C4_Witness ==
    /\ ~includeDate
    /\ Completed(1) /\ Completed(2)
    /\ filePath[1] = <<"s", "h", "o", "t", ".", "p", "n", "g">>
    /\ filePath[2] = <<"s", "h", "o", "t", "-", "1", ".", "p", "n", "g">>
    /\ files[filePath[1]].owner = 1
    /\ files[filePath[2]].owner = 2

\* C5: nothing between the existence check and the creation of the file
\* keeps a concurrent invocation out: an invocation that is about to open a
\* path that exists by now can open it, and the open truncates the file.
C5_OpenTruncatesExistingFile ==
    \A p \in Procs :
        (pc[p] = "fopen" /\ filePath[p] \in DOMAIN files) =>
            ENABLED (/\ Fopen(p, TRUE)
                     /\ pc'[p] = "png_create"
                     /\ files'[filePath[p]] = NewContent(p))

\* both invocations found the same name free, one wrote its file and
\* reported it, and the other then opened and truncated that file
C5_Witness ==
    \E p, q \in Racers :
        /\ p # q
        /\ filePath[p] = filePath[q]
        /\ probes[p] = probes[q]
        /\ filePath[p] \notin DOMAIN fsBefore[p]
        /\ filePath[q] \notin DOMAIN fsBefore[q]
        /\ pc[q] = "exited" /\ failed[q] = {} /\ ran[q]["Encode"] = 1
        /\ ran[p]["Encode"] = 1
        /\ files[filePath[q]].owner = p
        /\ q \notin files[filePath[q]].complete

\* C6: convertRgb565ToRgb888 yields one pixel per input pixel, pixel i from
\* input pixel i alone: red = floor(r * 255 / 31), green = floor(g * 255 / 63),
\* blue = floor(b * 255 / 31), each within 0..255 as computed, 0 for 0 and
\* 255 for the channel's maximum, and non-decreasing in the input.
Converted(p) == buffer888[p] # NoBuffer

Red5(w) == w \div 2048
Green6(w) == (w \div 32) % 64
Blue5(w) == w % 32

C6_ConversionIsPointwiseRescale ==
    \A p \in Procs :
        Converted(p) =>
            LET src == buffer565[p]
                dst == buffer888[p]
            IN  /\ DOMAIN dst = 1..NPixels
                /\ \A i \in 1..NPixels :
                     /\ dst[i].red = (Red5(src[i]) * 255) \div 31
                     /\ dst[i].green = (Green6(src[i]) * 255) \div 63
                     /\ dst[i].blue = (Blue5(src[i]) * 255) \div 31
                     /\ (Red5(src[i]) * 255) \div 31 \in 0..255
                     /\ (Green6(src[i]) * 255) \div 63 \in 0..255
                     /\ (Blue5(src[i]) * 255) \div 31 \in 0..255
                     /\ Red5(src[i]) = 0 => dst[i].red = 0
                     /\ Red5(src[i]) = 31 => dst[i].red = 255
                     /\ Green6(src[i]) = 0 => dst[i].green = 0
                     /\ Green6(src[i]) = 63 => dst[i].green = 255
                     /\ Blue5(src[i]) = 0 => dst[i].blue = 0
                     /\ Blue5(src[i]) = 31 => dst[i].blue = 255
                /\ \A i, j \in 1..NPixels :
                     /\ Red5(src[i]) <= Red5(src[j]) => dst[i].red <= dst[j].red
                     /\ Green6(src[i]) <= Green6(src[j]) => dst[i].green <= dst[j].green
                     /\ Blue5(src[i]) <= Blue5(src[j]) => dst[i].blue <= dst[j].blue

C6_Witness ==
    /\ Converted(1)
    /\ Green6(buffer565[1][1]) = 63 /\ buffer888[1][1].green = 255
    /\ Green6(buffer565[1][2]) = 21 /\ buffer888[1][2].green = 85
    /\ buffer888[1][1].red = 0 /\ buffer888[1][2].blue = 0

====
